---- MODULE Spec2Model ----
(***************************************************************************)
(* nebula-gui backend: the device provisioning core (api/client_setup.py   *)
(* with core/cert_manager.py and core/logger.py) and the daemon            *)
(* supervision endpoints (api/process.py with core/nebula_manager.py).     *)
(*                                                                         *)
(* The handlers take no lock.  Their shared state lives outside the server *)
(* process: token files under /tmp/nebula-tokens, certificate files under  *)
(* /tmp/nebula-certs and the SQL database.  Server workers therefore       *)
(* interleave at the granularity of one file-system call, one external     *)
(* tool run or one database statement; Spec has one step per such access.  *)
(* A single event loop, whose handlers never await, runs the behaviours of *)
(* Spec in which no two requests overlap.                                  *)
(***************************************************************************)
EXTENDS Integers, Sequences, FiniteSets, TLC

\* ---------------------------------------------------------------- bounds
MaxTokens == 2          \* provisioning tokens issued in one behaviour
MaxReqs == 2            \* download requests in one behaviour
MaxTime == 48           \* the clock stops here (hours)
MaxStarts == 3          \* daemons launched in one behaviour
MaxConfigId == 4        \* configuration ids given out in one behaviour

\* ------------------------------------------------------ program constants
TTL_HOURS == 24         \* timedelta(hours=24)
FIRST_HOST == 10        \* next_ip = 10  # Start from .10
POOL_PREFIX == <<192, 168, 100>>   \* "192.168.100.%"
POOL_MASK == 24         \* f"192.168.100.{next_ip}/24"

\* ----------------------------------------------------------------- inputs
\* An address string "a.b.c.d/m" is the tuple <<a, b, c, d, m>>; the empty
\* string is <<>>.
EMPTY_IP == <<>>
DeviceNames == {"laptop1", "phone1"}
CA_NAME == "home"
ExplicitIPs == {EMPTY_IP, <<192, 168, 100, 10, 24>>}
\* host certificates the certificates endpoints may have created before
SERVER_NAME == "server1"
SERVER_IP == <<192, 168, 100, 11, 24>>
EDGE_IP == <<192, 168, 100, 254, 24>>
CaIds == {1, 2}         \* id 1 is the CA of the initial database, id 2 is not a CA
\* rows of table users: the administrator created at first start, a second
\* user, and a user that was deactivated
ADMIN == [id |-> 1, is_active |-> TRUE]
OPERATOR == [id |-> 2, is_active |-> TRUE]
SUSPENDED == [id |-> 3, is_active |-> FALSE]
Users == {ADMIN, OPERATOR, SUSPENDED}
Tokens == 1 .. MaxTokens
Reqs == 1 .. MaxReqs

VARIABLES
    now,        \* datetime.utcnow(), in hours
    store,      \* /tmp/nebula-tokens: token -> token_data of each token file
    issued,     \* history: the token_data each token was issued with, in order,
                \* and whether its address was auto-assigned
    certs,      \* table certificates, index = Certificate.id
    certFiles,  \* /tmp/nebula-certs: name -> material of {name}.crt/.key
    req,        \* download requests: position in the handler and its locals
    signCalls,  \* history: nebula-cert sign invocations per token
    audit,      \* table audit_logs, as the set of <<action, resource_name>>
    auditUp,    \* environment: whether the commit of an audit entry succeeds
    provResp,   \* response of the last /provision request
    qrResp,     \* response of the last /qr-code request
    alive,      \* operating system: pids of the daemons that exist
    launched,   \* operating system: pid -> configuration each daemon was launched with
    db_processes, \* table nebula_processes, index = NebulaProcess.id
    lastOp,     \* the last supervision request and its response
    nebula_configs, \* table nebula_configs: NebulaConfig.id -> row
    lastConf    \* the last /configs request and its response

provVars == <<now, store, issued, certs, certFiles, req, signCalls, audit, auditUp, provResp,
             qrResp>>
procVars == <<alive, launched, db_processes, lastOp>>
confVars == <<nebula_configs, lastConf>>
vars == <<provVars, procVars, confVars>>

NO_FILE == "none"
CA_MATERIAL == "ca"
HOST_MATERIAL == "host"
NO_DATA == [device_name |-> "", ip_address |-> EMPTY_IP, ca_id |-> 0, user_id |-> 0,
            expires_at |-> 0]
\* found and overlap are history: what the token was when the request looked
\* for its file, and whether the request ran while another request for the
\* same token was in flight
IDLE_REQ == [pc |-> "idle", token |-> 0, data |-> NO_DATA, ca_name |-> "",
             result |-> 0, detail |-> "", material |-> NO_FILE, checkedAt |-> 0,
             found |-> "", overlap |-> FALSE]

\* ------------------------------------------------- address auto-assignment
\* Certificate.ip_address.like("192.168.100.%")
InPool(ip) == Len(ip) >= 4 /\ SubSeq(ip, 1, 3) = POOL_PREFIX

\* int(ip_address.split('.')[3].split('/')[0])
HostOf(ip) == ip[4]

\* f"192.168.100.{next_ip}/24"
FormatIP(n) == POOL_PREFIX \o <<n, POOL_MASK>>

\* ids of the rows .filter(ip_address.like(...))
PoolIds(table) == {i \in 1 .. Len(table) : InPool(table[i].ip_address)}

MaxOf(S) == CHOOSE m \in S : \A x \in S : x <= m

\* .order_by(Certificate.id.desc()).first(): the row created last
LastCertId(table) == IF PoolIds(table) = {} THEN 0 ELSE MaxOf(PoolIds(table))

\* lines 66-79: the host number given to a request without address
NextIp(table) ==
    IF LastCertId(table) # 0
    THEN HostOf(table[LastCertId(table)].ip_address) + 1
    ELSE FIRST_HOST

\* ------------------------------------------------------------ audit logger
\* log_action: the entry is added and committed, or the failure is swallowed
LogAction(action, name) ==
    audit' = IF auditUp THEN audit \cup {<<action, name>>} ELSE audit

\* Certificate.name is unique=True
NameTaken(table, name) == \E i \in 1 .. Len(table) : table[i].name = name

\* ------------------------------------------------------- daemon supervision
ConfigNames == {"site-a", "site-b"}
\* config_id of a start request; table nebula_configs holds ids 1 and 2 at
\* first
ConfigIds == {1, 2, 3}
\* db.query(NebulaConfig).filter(NebulaConfig.id == config_id).first()
ConfigName(id) == nebula_configs[id].name
ConfigExists(id) == id \in DOMAIN nebula_configs
SITE_CONFIGS == (1 :> [name |-> "site-a", is_active |-> FALSE])
                @@ (2 :> [name |-> "site-b", is_active |-> FALSE])
NO_CONF == [op |-> "none", id |-> 0, code |-> 0]
NO_OP == [op |-> "none", name |-> "", code |-> 0, detail |-> "", pid |-> 0,
          running |-> FALSE, summary |-> <<>>]

\* ------------------------------------------------------------------- Init
\* The database holds the CA (id 1) and possibly a host certificate created
\* with an explicit address.  The files of the host certificate are in the
\* certificate directory; the files of the CA are there or not (the directory
\* is under /tmp, the row is in the database).
CA_ONLY == <<[name |-> CA_NAME, is_ca |-> TRUE, ip_address |-> EMPTY_IP,
             created_by |-> ADMIN.id]>>
CA_AND_SERVER == Append(CA_ONLY, [name |-> SERVER_NAME, is_ca |-> FALSE,
                                  ip_address |-> SERVER_IP, created_by |-> ADMIN.id])
\* the host certificate holds the last host address of the /24 pool
CA_AND_EDGE == Append(CA_ONLY, [name |-> SERVER_NAME, is_ca |-> FALSE,
                                ip_address |-> EDGE_IP, created_by |-> ADMIN.id])
FileNames == DeviceNames \cup {CA_NAME, SERVER_NAME}

InitWith(tables) ==
    /\ now = 0
    /\ store = <<>>
    /\ issued = <<>>
    /\ certs \in tables
    /\ \E ca_files \in {CA_MATERIAL, NO_FILE} :
          certFiles = [n \in FileNames |->
                          IF n = CA_NAME THEN ca_files
                          ELSE IF NameTaken(certs, n) THEN HOST_MATERIAL ELSE NO_FILE]
    /\ req = [r \in Reqs |-> IDLE_REQ]
    /\ signCalls = [t \in Tokens |-> 0]
    /\ audit = {}
    /\ auditUp \in BOOLEAN
    /\ provResp = 0
    /\ alive = {}
    /\ launched = <<>>
    /\ db_processes = <<>>
    /\ lastOp = NO_OP
    /\ nebula_configs = SITE_CONFIGS
    /\ lastConf = NO_CONF
    /\ qrResp = 0

Init == InitWith({CA_ONLY, CA_AND_SERVER})

\* ------------------------------------------------------------------ clock
\* time passes, one token lifetime at a time
Tick ==
    /\ now + TTL_HOURS <= MaxTime
    /\ now' = now + TTL_HOURS
    /\ UNCHANGED <<store, issued, certs, certFiles, req, signCalls, audit, auditUp, provResp, qrResp, procVars, confVars>>

\* ------------------------------------------------ POST /client-setup/provision
\* mutant: the referenced certificate need not be a CA
IsCa_any_certificate(table, id) == id \in 1 .. Len(table)

\* Certificate.id == ca_id, Certificate.is_ca == True
IsCa(table, id) == id \in 1 .. Len(table) /\ table[id].is_ca

\* mutant: the name of the token issued last is used again
FreshToken_reused == IF Len(issued) = 0 THEN Len(issued) + 1 ELSE Len(issued)

\* secrets.token_urlsafe(32): a name no earlier token has
FreshToken == Len(issued) + 1

\* the handler behind Depends(get_current_active_user)
provision_client_device(device_name, ip_address, ca_id, current_user) ==
    /\ Len(issued) < MaxTokens
    /\ IF ~current_user.is_active
       THEN /\ provResp' = 400
            /\ UNCHANGED <<store, issued, audit, procVars, confVars>>
       ELSE IF ~IsCa(certs, ca_id)
       THEN /\ provResp' = 404
            /\ UNCHANGED <<store, issued, audit, procVars, confVars>>
       ELSE LET ip == IF ip_address = EMPTY_IP
                      THEN FormatIP(NextIp(certs))
                      ELSE ip_address
                token_data == [device_name |-> device_name,
                               ip_address |-> ip,
                               ca_id |-> ca_id,
                               user_id |-> current_user.id,
                               expires_at |-> now + TTL_HOURS]
            IN  /\ store' = (FreshToken :> token_data) @@ store
                /\ issued' = Append(issued, [data |-> token_data,
                                             auto |-> ip_address = EMPTY_IP])
                /\ LogAction("client_provision_token_created", device_name)
                /\ provResp' = 200
    /\ UNCHANGED <<now, certs, certFiles, req, signCalls, auditUp, qrResp, procVars, confVars>>

\* the requests of the administrator
Provision ==
    \E n \in DeviceNames, ip \in ExplicitIPs, ca \in CaIds :
        provision_client_device(n, ip, ca, ADMIN)

\* the requests of any user
ProvisionAny ==
    \E n \in DeviceNames, ip \in ExplicitIPs, ca \in CaIds, u \in Users :
        provision_client_device(n, ip, ca, u)

\* ------------------------------------- GET /client-setup/download/{token}
\* the response; the locals of the handler die with it
Finish(r, code, detail) ==
    [req EXCEPT ![r] = [IDLE_REQ EXCEPT !.pc = "done", !.token = req[r].token,
                                        !.found = req[r].found,
                                        !.overlap = req[r].overlap,
                                        !.result = code, !.detail = detail]]

RemoveFile(t) == [x \in DOMAIN store \ {t} |-> store[x]]

\* mutant: the expiry instant itself counts as expired
IsExpired_inclusive(clock, expires_at) == clock >= expires_at

\* datetime.utcnow() > expires_at
IsExpired(clock, expires_at) == clock > expires_at

InFlight(q) == req[q].pc \notin {"idle", "done"}

\* lines 139-146: token_file.exists()
download_exists(r, t) ==
    /\ req[r].pc = "idle"
    /\ \A q \in Reqs : q < r => req[q].pc # "idle"
    /\ IF t \in DOMAIN store
       THEN req' = [q \in Reqs |->
                      IF q = r
                      THEN [req[r] EXCEPT
                              !.pc = "read", !.token = t,
                              !.found = IF IsExpired(now, store[t].expires_at)
                                        THEN "expired" ELSE "valid",
                              !.overlap = \E o \in Reqs : InFlight(o) /\ req[o].token = t]
                      ELSE IF InFlight(q) /\ req[q].token = t
                           THEN [req[q] EXCEPT !.overlap = TRUE]
                           ELSE req[q]]
       ELSE req' = [req EXCEPT ![r] = [IDLE_REQ EXCEPT !.pc = "done", !.token = t,
                                          !.found = "absent", !.result = 404,
                                          !.detail = "token"]]
    /\ UNCHANGED <<now, store, issued, certs, certFiles, signCalls, audit, auditUp, provResp, qrResp, procVars, confVars>>

\* lines 148-152: token_file.read_text() raises FileNotFoundError when the file
\* is gone (no handler: HTTP 500); then the expiry comparison on the data read
download_read(r) ==
    /\ req[r].pc = "read"
    /\ LET t == req[r].token IN
       IF t \notin DOMAIN store
       THEN req' = Finish(r, 500, "FileNotFoundError")
       ELSE req' = [req EXCEPT ![r].data = store[t],
                               ![r].checkedAt = now,
                               ![r].pc = IF IsExpired(now, store[t].expires_at)
                                         THEN "unlink_expired" ELSE "ca"]
    /\ UNCHANGED <<now, store, issued, certs, certFiles, signCalls, audit, auditUp, provResp, qrResp, procVars, confVars>>

\* lines 153-157: token_file.unlink(), then 410
download_unlink_expired(r) ==
    /\ req[r].pc = "unlink_expired"
    /\ LET t == req[r].token IN
       IF t \notin DOMAIN store
       THEN /\ req' = Finish(r, 500, "FileNotFoundError")
            /\ UNCHANGED store
       ELSE /\ store' = RemoveFile(t)
            /\ req' = Finish(r, 410, "expired")
    /\ UNCHANGED <<now, issued, certs, certFiles, signCalls, audit, auditUp, provResp, qrResp, procVars, confVars>>

\* lines 159-168: Certificate.id == token_data["ca_id"] (no is_ca filter)
download_ca(r) ==
    /\ req[r].pc = "ca"
    /\ LET id == req[r].data.ca_id IN
       IF id \in 1 .. Len(certs)
       THEN req' = [req EXCEPT ![r].pc = "sign", ![r].ca_name = certs[id].name]
       ELSE req' = Finish(r, 404, "ca")
    /\ UNCHANGED <<now, store, issued, certs, certFiles, signCalls, audit, auditUp, provResp, qrResp, procVars, confVars>>

\* the certificate and key that request r's run of the tool wrote
Signed(r) == IF r = 1 THEN "signed1" ELSE "signed2"

\* CertificateManager.sign_certificate: one run of `nebula-cert sign` with the
\* CA files of ca_name, writing and reading back {name}.crt/.key.  The tool is
\* opaque: it fails without CA material and may fail with it (exit code,
\* timeout); every failure is raised as RuntimeError.
sign_certificate(r, name, ca_name, toolOk) ==
    IF certFiles[ca_name] # NO_FILE /\ toolOk
    THEN /\ certFiles' = [certFiles EXCEPT ![name] = Signed(r)]
         /\ req' = [req EXCEPT ![r].pc = "save", ![r].material = Signed(r)]
    ELSE /\ req' = Finish(r, 500, "sign")
         /\ UNCHANGED certFiles

\* lines 170-180 and the except of 198-202
download_sign(r, toolOk) ==
    /\ req[r].pc = "sign"
    /\ sign_certificate(r, req[r].data.device_name, req[r].ca_name, toolOk)
    /\ signCalls' = [signCalls EXCEPT ![req[r].token] = @ + 1]
    /\ UNCHANGED <<now, store, issued, certs, audit, auditUp, provResp, qrResp, procVars, confVars>>

\* mutant: a request that fails to persist the certificate deletes the token
download_save_failure_unlinks(r) ==
    /\ req[r].pc = "save"
    /\ IF NameTaken(certs, req[r].data.device_name)
       THEN /\ req' = Finish(r, 500, "IntegrityError")
            /\ store' = RemoveFile(req[r].token)
            /\ UNCHANGED certs
       ELSE /\ certs' = Append(certs, [name |-> req[r].data.device_name,
                                       is_ca |-> FALSE,
                                       ip_address |-> req[r].data.ip_address,
                                       created_by |-> req[r].data.user_id])
            /\ req' = [req EXCEPT ![r].pc = "unlink"]
            /\ UNCHANGED store
    /\ UNCHANGED <<now, issued, certFiles, signCalls, audit, auditUp, provResp, qrResp, procVars, confVars>>

\* lines 182-196 and the except of 198-202: db.add(new_cert); db.commit()
download_save(r) ==
    /\ req[r].pc = "save"
    /\ IF NameTaken(certs, req[r].data.device_name)
       THEN /\ req' = Finish(r, 500, "IntegrityError")
            /\ UNCHANGED certs
       ELSE /\ certs' = Append(certs, [name |-> req[r].data.device_name,
                                       is_ca |-> FALSE,
                                       ip_address |-> req[r].data.ip_address,
                                       created_by |-> req[r].data.user_id])
            /\ req' = [req EXCEPT ![r].pc = "unlink"]
    /\ UNCHANGED <<now, store, issued, certFiles, signCalls, audit, auditUp, provResp, qrResp, procVars, confVars>>

\* mutant: a failure to record the audit entry fails the request
download_unlink_audit_aborts(r) ==
    /\ req[r].pc = "unlink"
    /\ LET t == req[r].token IN
       IF t \notin DOMAIN store
       THEN /\ req' = Finish(r, 500, "FileNotFoundError")
            /\ UNCHANGED <<store, audit>>
       ELSE /\ store' = RemoveFile(t)
            /\ LogAction("client_package_downloaded", req[r].data.device_name)
            /\ req' = IF auditUp THEN Finish(r, 200, "package")
                                 ELSE Finish(r, 500, "audit")
    /\ UNCHANGED <<now, issued, certs, certFiles, signCalls, auditUp, provResp, qrResp, procVars, confVars>>

\* mutant: the package is returned without deleting the token file
download_unlink_keeps_token(r) ==
    /\ req[r].pc = "unlink"
    /\ LogAction("client_package_downloaded", req[r].data.device_name)
    /\ req' = Finish(r, 200, "package")
    /\ UNCHANGED <<now, store, issued, certs, certFiles, signCalls, auditUp, provResp, qrResp, procVars, confVars>>

\* lines 230-253: token_file.unlink(), log_action, the ZIP response
download_unlink(r) ==
    /\ req[r].pc = "unlink"
    /\ LET t == req[r].token IN
       IF t \notin DOMAIN store
       THEN /\ req' = Finish(r, 500, "FileNotFoundError")
            /\ UNCHANGED <<store, audit>>
       ELSE /\ store' = RemoveFile(t)
            /\ LogAction("client_package_downloaded", req[r].data.device_name)
            /\ req' = Finish(r, 200, "package")
    /\ UNCHANGED <<now, issued, certs, certFiles, signCalls, auditUp, provResp, qrResp, procVars, confVars>>

\* the steps of a request that has passed the existence check
DownloadStep(r) ==
    \/ download_read(r)
    \/ download_unlink_expired(r)
    \/ download_ca(r)
    \/ \E toolOk \in BOOLEAN : download_sign(r, toolOk)
    \/ download_save(r)
    \/ download_unlink(r)

Download == \E r \in Reqs : (\E t \in Tokens : download_exists(r, t)) \/ DownloadStep(r)

Next == Tick \/ Provision \/ Download

Spec == Init /\ [][Next]_vars

\* ------------------------------------- GET /client-setup/qr-code/{token}
\* lines 256-299: token_file.exists(), then the image of the download URL
generate_qr_code_for_token(t) ==
    /\ qrResp' = IF t \in DOMAIN store THEN 200 ELSE 404
    /\ UNCHANGED <<now, store, issued, certs, certFiles, req, signCalls, audit, auditUp, provResp, procVars, confVars>>

Qr == \E t \in Tokens : generate_qr_code_for_token(t)

\* Provisioning and download together with the QR-code query.
QrNext == Tick \/ Provision \/ Download \/ Qr
QrSpec == Init /\ [][QrNext]_vars

\* Provisioning alone, by every user, on a database whose host certificate
\* may hold the last address of the pool.
ProvInit == InitWith({CA_ONLY, CA_AND_SERVER, CA_AND_EDGE})
ProvNext == Tick \/ ProvisionAny
ProvSpec == ProvInit /\ [][ProvNext]_vars

\* ------------------------------------------------------- /process endpoints
\* api/process.py calls the manager by configuration name and reads a result
\* dictionary; the manager of core/nebula_manager.py launches and signals by
\* path and pid, returns the pid and raises on failure.  The handlers are
\* bound to the manager's methods of the same name: a raise is the failure
\* branch (HTTP 500), a return is the success branch.

\* a pid the operating system has given to no earlier daemon
FreshPid == Len(launched) + 1

\* NebulaManager.is_process_running: os.kill(pid, 0) succeeds
is_process_running(pid) == pid \in alive

\* what a call of NebulaManager.start_nebula can do: return the pid of a
\* daemon that runs ("ok"), return the pid of a daemon that has exited by the
\* time the handler goes on ("exited": Popen does not wait), or raise
StartOutcomes == {"ok", "exited", "Config file not found", "Failed to start Nebula"}
Launched == {"ok", "exited"}

\* NebulaManager.start_nebula: the configuration file must exist, then
\* subprocess.Popen(..., start_new_session=True); the pid is returned.  There
\* is no test of a daemon already started with this configuration and no
\* poll of the new process.
start_nebula(name, outcome) ==
    IF outcome \in Launched
    THEN /\ alive' = IF outcome = "ok" THEN alive \cup {FreshPid} ELSE alive
         /\ launched' = Append(launched, name)
    ELSE UNCHANGED <<alive, launched>>

\* POST /process/start
start_nebula_process(config_id, outcome) ==
    /\ Len(launched) < MaxStarts
    /\ IF ~ConfigExists(config_id)
       THEN /\ lastOp' = [NO_OP EXCEPT !.op = "start", !.code = 404,
                                      !.detail = "Configuration not found"]
            /\ UNCHANGED <<alive, launched, db_processes>>
       ELSE LET name == ConfigName(config_id) IN
            /\ start_nebula(name, outcome)
            /\ IF outcome \in Launched
               THEN /\ db_processes' = Append(db_processes,
                            [pid |-> FreshPid, config_name |-> name, status |-> "running"])
                    /\ lastOp' = [NO_OP EXCEPT !.op = "start", !.name = name,
                                              !.code = 200, !.pid = FreshPid]
               ELSE /\ UNCHANGED db_processes
                    /\ lastOp' = [NO_OP EXCEPT !.op = "start", !.name = name,
                                              !.code = 500, !.detail = outcome]
    /\ UNCHANGED <<provVars, confVars>>

Start == \E id \in ConfigIds, outcome \in StartOutcomes : start_nebula_process(id, outcome)

\* a daemon exits on its own
DaemonExit ==
    \E pid \in alive :
        /\ alive' = alive \ {pid}
        /\ lastOp' = [NO_OP EXCEPT !.op = "exit", !.name = launched[pid], !.pid = pid]
        /\ UNCHANGED <<launched, db_processes, provVars, confVars>>

\* the rows of a configuration that claim a running daemon
RunningRows(name) ==
    {i \in 1 .. Len(db_processes) :
        db_processes[i].config_name = name /\ db_processes[i].status = "running"}

\* NebulaManager.get_status: running iff a pid on record for the name exists
get_status(name) == \E i \in RunningRows(name) : is_process_running(db_processes[i].pid)

\* mutant: a status request registers the name it is asked about
get_process_status_registers(name) ==
    /\ lastOp' = [NO_OP EXCEPT !.op = "status", !.name = name, !.code = 200,
                              !.running = get_status(name)]
    /\ db_processes' = Append(db_processes,
                              [pid |-> 0, config_name |-> name, status |-> "stopped"])
    /\ UNCHANGED <<alive, launched, provVars, confVars>>

\* GET /process/status/{config_name}: the handler has no database session
get_process_status(name) ==
    /\ lastOp' = [NO_OP EXCEPT !.op = "status", !.name = name, !.code = 200,
                              !.running = get_status(name)]
    /\ UNCHANGED <<alive, launched, db_processes, provVars, confVars>>

Status == \E name \in ConfigNames : get_process_status(name)

\* POST /process/stop/{config_name}.  The manager signals a pid; the pid of a
\* name is the one of its first record in status running (the record the
\* handler itself selects at lines 89-92).
FirstRunningRow(name) == CHOOSE i \in RunningRows(name) : \A j \in RunningRows(name) : i <= j
RecordedPid(name) == IF RunningRows(name) = {} THEN 0 ELSE db_processes[FirstRunningRow(name)].pid

\* what os.kill(pid, SIGTERM) leads to for a pid that exists: the daemon
\* exits, the daemon ignores the signal, or the call raises (EPERM)
StopOutcomes == {"exits", "ignores", "Failed to stop Nebula"}

\* NebulaManager.stop_nebula: True when the signal was sent, False on
\* ProcessLookupError, an exception otherwise.  No wait, no SIGKILL.
stop_nebula_result(pid, outcome) ==
    IF ~is_process_running(pid) THEN "False"
    ELSE IF outcome \in {"exits", "ignores"} THEN "True" ELSE "raise"

stop_nebula_alive(pid, outcome) ==
    IF is_process_running(pid) /\ outcome = "exits" THEN alive \ {pid} ELSE alive

\* UPDATE of one row
MarkStopped(rows) ==
    [i \in 1 .. Len(db_processes) |->
        IF i \in rows THEN [db_processes[i] EXCEPT !.status = "stopped"]
        ELSE db_processes[i]]

\* mutant: the record is set to stopped whatever the manager reported
stop_nebula_process_always_marks(name, outcome) ==
    LET pid == RecordedPid(name)
        result == stop_nebula_result(pid, outcome)
    IN  /\ alive' = stop_nebula_alive(pid, outcome)
        /\ db_processes' = IF RunningRows(name) = {} THEN db_processes
                           ELSE MarkStopped({FirstRunningRow(name)})
        /\ lastOp' = [NO_OP EXCEPT !.op = "stop", !.name = name, !.pid = pid,
                                  !.code = IF result = "True" THEN 200 ELSE 500]
        /\ UNCHANGED <<launched, provVars, confVars>>

stop_nebula_process(name, outcome) ==
    LET pid == RecordedPid(name)
        result == stop_nebula_result(pid, outcome)
    IN  /\ alive' = stop_nebula_alive(pid, outcome)
        /\ IF result = "True"
           THEN /\ db_processes' = MarkStopped({FirstRunningRow(name)})
                /\ lastOp' = [NO_OP EXCEPT !.op = "stop", !.name = name,
                                          !.code = 200, !.pid = pid]
           ELSE /\ UNCHANGED db_processes
                /\ lastOp' = [NO_OP EXCEPT !.op = "stop", !.name = name,
                                          !.code = 500, !.pid = pid,
                                          !.detail = "Failed to stop Nebula"]
        /\ UNCHANGED <<launched, provVars, confVars>>

Stop == \E name \in ConfigNames, outcome \in StopOutcomes : stop_nebula_process(name, outcome)

\* POST /process/stop-all
\* the names with a record in status running
TrackedNames == {n \in ConfigNames : RunningRows(n) # {}}

\* mutant: the first failure ends the loop; the names after it are skipped
kill_all_first_failure_aborts(f) ==
    LET skipped == {n \in TrackedNames :
                       /\ n = "site-b"
                       /\ "site-a" \in TrackedNames
                       /\ stop_nebula_result(RecordedPid("site-a"), f["site-a"]) = "raise"}
    IN  [summary |-> [n \in TrackedNames \ skipped |->
                         stop_nebula_result(RecordedPid(n), f[n])],
         alive |-> alive \ {RecordedPid(n) : n \in {m \in TrackedNames \ skipped : f[m] = "exits"}}]

\* NebulaManager.kill_all: a stop of every tracked name, each with its own
\* failure handling, and a result per name.  f is what the signal leads to
\* for each name.
kill_all(f) ==
    [summary |-> [n \in TrackedNames |-> stop_nebula_result(RecordedPid(n), f[n])],
     alive |-> alive \ {RecordedPid(n) : n \in {m \in TrackedNames : f[m] = "exits"}}]

\* the handler: kill_all, then every record in status running is set to stopped
stop_all_processes(f) ==
    /\ alive' = kill_all(f).alive
    /\ db_processes' = MarkStopped({i \in 1 .. Len(db_processes) :
                                       db_processes[i].status = "running"})
    /\ lastOp' = [NO_OP EXCEPT !.op = "stop-all", !.code = 200,
                              !.summary = kill_all(f).summary]
    /\ UNCHANGED <<launched, provVars, confVars>>

StopAll == \E f \in [ConfigNames -> StopOutcomes] : stop_all_processes(f)

ProcNext == Start \/ DaemonExit \/ Status \/ Stop \/ StopAll

ProcSpec == Init /\ [][ProcNext]_vars

\* ------------------------------------------------------ /configs endpoints
\* Each handler is one database transaction.
NewConfigNames == ConfigNames \cup {"site-c"}
AnyConfigId == 1 .. MaxConfigId

\* the id the database gives the next row
FreshConfigId == IF DOMAIN nebula_configs = {} THEN 1 ELSE MaxOf(DOMAIN nebula_configs) + 1

\* POST /configs/
create_config(name) ==
    /\ FreshConfigId <= MaxConfigId
    /\ IF \E id \in DOMAIN nebula_configs : nebula_configs[id].name = name
       THEN /\ lastConf' = [op |-> "create", id |-> 0, code |-> 400]
            /\ UNCHANGED nebula_configs
       ELSE /\ nebula_configs' = (FreshConfigId :> [name |-> name, is_active |-> FALSE])
                                  @@ nebula_configs
            /\ lastConf' = [op |-> "create", id |-> FreshConfigId, code |-> 201]
    /\ UNCHANGED <<provVars, procVars>>

\* mutant: the other configurations keep their flag
activate_config_keeps_others(config_id) ==
    /\ IF ~ConfigExists(config_id)
       THEN /\ lastConf' = [op |-> "activate", id |-> config_id, code |-> 404]
            /\ UNCHANGED nebula_configs
       ELSE /\ nebula_configs' = [nebula_configs EXCEPT ![config_id].is_active = TRUE]
            /\ lastConf' = [op |-> "activate", id |-> config_id, code |-> 200]
    /\ UNCHANGED <<provVars, procVars>>

\* POST /configs/{config_id}/activate
activate_config(config_id) ==
    /\ IF ~ConfigExists(config_id)
       THEN /\ lastConf' = [op |-> "activate", id |-> config_id, code |-> 404]
            /\ UNCHANGED nebula_configs
       ELSE /\ nebula_configs' = [id \in DOMAIN nebula_configs |->
                                     [nebula_configs[id] EXCEPT !.is_active = (id = config_id)]]
            /\ lastConf' = [op |-> "activate", id |-> config_id, code |-> 200]
    /\ UNCHANGED <<provVars, procVars>>

\* POST /configs/{config_id}/deactivate
deactivate_config(config_id) ==
    /\ IF ~ConfigExists(config_id)
       THEN /\ lastConf' = [op |-> "deactivate", id |-> config_id, code |-> 404]
            /\ UNCHANGED nebula_configs
       ELSE /\ nebula_configs' = [nebula_configs EXCEPT ![config_id].is_active = FALSE]
            /\ lastConf' = [op |-> "deactivate", id |-> config_id, code |-> 200]
    /\ UNCHANGED <<provVars, procVars>>

\* DELETE /configs/{config_id}
delete_config(config_id) ==
    /\ IF ~ConfigExists(config_id)
       THEN /\ lastConf' = [op |-> "delete", id |-> config_id, code |-> 404]
            /\ UNCHANGED nebula_configs
       ELSE /\ nebula_configs' = [id \in DOMAIN nebula_configs \ {config_id} |->
                                     nebula_configs[id]]
            /\ lastConf' = [op |-> "delete", id |-> config_id, code |-> 204]
    /\ UNCHANGED <<provVars, procVars>>

Create == \E name \in NewConfigNames : create_config(name)
Activate == \E id \in AnyConfigId : activate_config(id)
Deactivate == \E id \in AnyConfigId : deactivate_config(id)
Delete == \E id \in AnyConfigId : delete_config(id)

ConfNext == Create \/ Activate \/ Deactivate \/ Delete

ConfSpec == Init /\ [][ConfNext]_vars

\* ------------------------------------------------------------ properties
\* the finished requests for token t that found its file while it was
\* unexpired and ran concurrently with another request for t
Racers(t) ==
    {r \in Reqs : req[r].token = t /\ req[r].found = "valid" /\ req[r].overlap}

\* C1: of two or more concurrent redemption requests for one unexpired token,
\* exactly one succeeds and every other one observes NotFound (404).  Runs in
\* which the signing tool itself fails are left out.
C1_ExactlyOneRedeems ==
    \A t \in DOMAIN issued :
        (/\ now < issued[t].data.expires_at
         /\ Cardinality(Racers(t)) >= 2
         /\ \A r \in Racers(t) : req[r].pc = "done" /\ req[r].detail # "sign")
        => /\ Cardinality({r \in Racers(t) : req[r].result = 200}) = 1
           /\ \A r \in Racers(t) : req[r].result # 200 => req[r].result = 404

\* C2: the signing tool is dispatched at most once for a token, so that no
\* token leads to two signed certificates.  Runs in which the signing tool
\* itself fails for the token are left out.
C2_SignedAtMostOnce ==
    \A t \in Tokens :
        (\A r \in Reqs : req[r].token = t => req[r].detail # "sign")
        => signCalls[t] <= 1

\* C3: once a redemption of a token has succeeded, every redemption of that
\* token made after it (not overlapping it) is answered NotFound (404),
\* whatever the time.
C3_SecondRedemptionNotFound ==
    \A r1, r2 \in Reqs :
        (/\ r1 < r2
         /\ req[r1].pc = "done" /\ req[r1].result = 200
         /\ req[r2].pc # "idle" /\ req[r2].token = req[r1].token
         /\ ~req[r2].overlap)
        => req[r2].pc = "done" /\ req[r2].result = 404

\* C3 witness: a second redemption after a success, made after the expiry time
C3_Witness ==
    /\ req[1].pc = "done" /\ req[1].result = 200
    /\ req[2].pc = "done" /\ req[2].token = req[1].token /\ req[2].result = 404
    /\ now > issued[req[1].token].data.expires_at

\* C4: a redemption that finds a stored token past its expiry is answered
\* Expired (410) and leaves the token removed.
C4_ExpiredIsGone ==
    \A r \in Reqs :
        (req[r].pc = "done" /\ req[r].found = "expired")
        => req[r].result = 410 /\ req[r].token \notin DOMAIN store

\* the positions of a request that has passed the validity check
Passed == {"ca", "sign", "save", "unlink"}

\* C5: a token passes the validity check only at a time before its expiry
\* (now < expires-at).
C5_ValidBeforeExpiry ==
    \A r \in Reqs : req[r].pc \in Passed => req[r].checkedAt < req[r].data.expires_at

\* C5 as amended: a token passes the validity check iff now <= expires-at; a
\* request that finds now > expires-at takes the Expired branch and signs
\* nothing.
C5_ValidUntilExpiry ==
    \A r \in Reqs :
        /\ req[r].pc \in Passed => req[r].checkedAt <= req[r].data.expires_at
        /\ req[r].pc = "unlink_expired" => req[r].checkedAt > req[r].data.expires_at
        /\ req[r].found = "expired" => req[r].material = NO_FILE

\* C5 witness: a request about to sign that was checked at the expiry instant
C5_Witness ==
    \E r \in Reqs : req[r].pc = "sign" /\ req[r].checkedAt = req[r].data.expires_at

\* C6: no two tokens issued with an auto-assigned address carry the same
\* address.
C6_DistinctAutoAddresses ==
    \A i, j \in DOMAIN issued :
        (i # j /\ issued[i].auto /\ issued[j].auto)
        => issued[i].data.ip_address # issued[j].data.ip_address

\* a step that issues a token with an auto-assigned address
AutoAssigned == Len(issued') = Len(issued) + 1 /\ issued'[Len(issued')].auto
Assigned == issued'[Len(issued')].data.ip_address

\* C7: an auto-assigned address differs from the address of every certificate
\* already issued.
C7_AssignedAddressIsFree ==
    [][AutoAssigned => \A i \in 1 .. Len(certs) : certs[i].ip_address # Assigned]_vars

\* the host numbers issued in the pool
UsedHosts == {HostOf(certs[i].ip_address) : i \in PoolIds(certs)}

\* C8: auto-assignment returns the highest issued host number plus one, and
\* 10 for an empty pool.
C8_NextAfterHighest ==
    [][AutoAssigned =>
          HostOf(Assigned) = IF UsedHosts = {} THEN 10 ELSE MaxOf(UsedHosts) + 1]_vars

\* the daemons of a configuration that exist
LiveDaemons(name) == {pid \in alive : launched[pid] = name}

\* C9: a start of a configuration that has a live running daemon fails,
\* launches no process, adds no record and leaves the existing daemon alone.
C9_StartWhileRunningFails ==
    [][\A name \in ConfigNames :
          (LiveDaemons(name) # {} /\ lastOp'.op = "start" /\ lastOp'.name = name)
          => /\ lastOp'.code # 200
             /\ alive' = alive
             /\ launched' = launched
             /\ db_processes' = db_processes]_vars

C11_StopOfDeadFailsAndCorrects ==
    [][\A name \in ConfigNames :
          (/\ lastOp'.op = "stop" /\ lastOp'.name = name
           /\ RunningRows(name) # {}
           /\ ~is_process_running(RecordedPid(name)))
          => /\ lastOp'.code # 200
             /\ db_processes'[FirstRunningRow(name)].status # "running"]_vars

\* C12: when a stop reports success, the daemon it stopped does not exist.
C12_StoppedMeansGone ==
    (lastOp.op = "stop" /\ lastOp.code = 200) => ~is_process_running(lastOp.pid)

\* C13: a start reports success and records a running daemon only if the
\* launched process is alive when the handler returns.
C13_StartedMeansAlive ==
    [][(lastOp'.op = "start" /\ lastOp'.code = 200)
          => lastOp'.pid \in alive']_vars

\* C14: stop-all attempts a stop of every tracked name, whatever the stops of
\* the other names did, and its summary has a result for every tracked name;
\* the result of a name is "False" exactly when its recorded process did not
\* exist.
C14_StopAllCoversEveryName ==
    [][lastOp'.op = "stop-all"
          => /\ DOMAIN lastOp'.summary = TrackedNames
             /\ \A n \in TrackedNames :
                    /\ lastOp'.summary[n] \in {"True", "False", "raise"}
                    /\ lastOp'.summary[n] = "False" <=> ~is_process_running(RecordedPid(n))]_vars

\* C14 witness: a stop-all in which the stop of one name raised and the stop
\* of the other name was carried out
C14_Witness ==
    /\ lastOp.op = "stop-all"
    /\ DOMAIN lastOp.summary = ConfigNames
    /\ lastOp.summary["site-a"] = "raise"
    /\ lastOp.summary["site-b"] = "True"

\* the records of a name, in any status
RowsOf(name) == {i \in 1 .. Len(db_processes) : db_processes[i].config_name = name}

C16_AbsentCaIsCANotFound ==
    [][\A r \in Reqs :
          (/\ req[r].pc = "sign" /\ req'[r].pc # "sign"
           /\ certFiles[req[r].ca_name] = NO_FILE)
          => /\ req'[r].pc = "done"
             /\ req'[r].detail = "CANotFound"
             /\ certFiles' = certFiles]_vars

\* C17: once an identity has been created (its record is in the database and
\* its certificate and key files are stored), no later signing or redemption
\* changes the stored files.
C17_MaterialImmutable ==
    [][\A n \in FileNames :
          (NameTaken(certs, n) /\ certFiles[n] # NO_FILE)
          => certFiles'[n] = certFiles[n]]_vars

\* the payload token t was issued with
IssuedData(t) == issued[t].data

C19_EveryAttemptAudited ==
    auditUp =>
        /\ provResp # 0 => audit # {}
        /\ \A r \in Reqs :
              req[r].pc = "done"
              => \E e \in audit : e[1] # "client_provision_token_created"

\* C20: when the audit entry cannot be stored, an issuance still stores and
\* returns its token, and a redemption that reaches the deletion of its token
\* still deletes it and returns the package.
C20_AuditFailureIsHarmless ==
    [][~auditUp =>
          /\ Len(issued') = Len(issued) + 1
                => provResp' = 200 /\ (Len(issued') \in DOMAIN store') /\ audit' = audit
          /\ \A r \in Reqs :
                (req[r].pc = "unlink" /\ req'[r].pc = "done" /\ req[r].token \in DOMAIN store)
                => /\ req'[r].result = 200
                   /\ req[r].token \notin DOMAIN store'
                   /\ audit' = audit]_vars

\* C20 witness: a token issued and redeemed while no audit entry can be stored
C20_Witness ==
    /\ ~auditUp
    /\ audit = {}
    /\ provResp = 200
    /\ \E r \in Reqs : /\ req[r].pc = "done" /\ req[r].result = 200
                       /\ req[r].token \in DOMAIN issued
                       /\ req[r].token \notin DOMAIN store
\* C22: whatever the order of two start requests for one name, at most one
\* daemon of that name is launched and exists.
C22_OneDaemonPerName ==
    \A name \in ConfigNames : Cardinality(LiveDaemons(name)) <= 1

\* the lifecycle status the records give a name
NameStatus(name) ==
    IF RowsOf(name) = {} THEN "absent"
    ELSE IF RunningRows(name) # {} THEN "running"
    ELSE "stopped"

\* the moves of the lifecycle
Lifecycle ==
    {<<"absent", "starting">>, <<"starting", "running">>, <<"starting", "failed">>,
     <<"running", "stopping">>, <<"stopping", "stopped">>, <<"running", "failed">>,
     <<"stopped", "starting">>, <<"failed", "starting">>}

\* C24: the recorded status of a name changes only along the lifecycle
\* absent, starting, running (or failed), stopping, stopped, and running to
\* failed; a name is not running without having been starting.
C24_LifecycleOrder ==
    [][\A name \in ConfigNames :
          \/ NameStatus(name)' = NameStatus(name)
          \/ <<NameStatus(name), NameStatus(name)'>> \in Lifecycle]_vars

\* C25: a name has at most one process record, and so at most one record in
\* status running.
C25_OneRecordPerName ==
    \A name \in ConfigNames :
        Cardinality(RowsOf(name)) <= 1 /\ Cardinality(RunningRows(name)) <= 1

\* C27: a start or a stop that is answered with a failure leaves the process
\* records as they were.
C27_FailureKeepsRecords ==
    [][(lastOp'.op \in {"start", "stop"} /\ lastOp'.code # 200)
          => db_processes' = db_processes]_vars

\* C27 witness: a failed stop of a name that has a record in status running
C27_Witness ==
    /\ lastOp.op = "stop"
    /\ lastOp.code = 500
    /\ RunningRows(lastOp.name) # {}

\* C28: stop and stop-all change a record from running to stopped only if the
\* daemon of that record no longer exists.
C28_StoppedRecordMeansStopped ==
    [][lastOp'.op \in {"stop", "stop-all"}
          => \A i \in 1 .. Len(db_processes) :
                (db_processes[i].status = "running" /\ db_processes'[i].status = "stopped")
                => db_processes[i].pid \notin alive']_vars
\* the configurations marked active
ActiveConfigs == {id \in DOMAIN nebula_configs : nebula_configs[id].is_active}

\* C30: at most one configuration is active; after an activation the
\* activated configuration is the active one; a configuration just created
\* is inactive.
C30_OneActiveConfig ==
    /\ Cardinality(ActiveConfigs) <= 1
    /\ (lastConf.op = "activate" /\ lastConf.code = 200) => ActiveConfigs = {lastConf.id}
    /\ (lastConf.op = "create" /\ lastConf.code = 201) => lastConf.id \notin ActiveConfigs

\* C30 witness: the configuration created last was activated among at least
\* three configurations and is the only active one
C30_Witness ==
    /\ lastConf.op = "activate"
    /\ lastConf.code = 200
    /\ Cardinality(DOMAIN nebula_configs) >= 3
    /\ ActiveConfigs = {3}

C29_HostNumberInRange ==
    [][AutoAssigned => HostOf(Assigned) \in 10 .. 254]_vars

\* C26: a stored token keeps its data for as long as it is stored, and it
\* leaves the store only in the step in which a redemption of that very token
\* ends with the package (200) or, past its expiry, with 410; the QR-code
\* query, failed redemptions and operations on other tokens leave it stored.
C26_TokenLeavesOnlyByRedemption ==
    [][\A t \in DOMAIN store :
          IF t \in DOMAIN store'
          THEN store'[t] = store[t]
          ELSE \E r \in Reqs :
                  /\ req[r].token = t
                  /\ InFlight(r)
                  /\ req'[r].pc = "done"
                  /\ \/ req'[r].result = 200
                     \/ req'[r].result = 410 /\ IsExpired(now, store[t].expires_at)]_vars

\* C26 witness: a redemption of a token failed in signing or in persisting,
\* the QR-code query found a token afterwards or before, and the token is
\* still stored with the data it was issued with, before its expiry
C26_Witness ==
    \E r \in Reqs :
        /\ req[r].pc = "done"
        /\ req[r].result = 500
        /\ req[r].detail \in {"sign", "IntegrityError"}
        /\ req[r].token \in DOMAIN store
        /\ store[req[r].token] = issued[req[r].token].data
        /\ ~IsExpired(now, store[req[r].token].expires_at)
        /\ qrResp = 200
====
